---- MODULE Spec2Model ----
(***************************************************************************)
(* QuizMaster Live: the game session engine of server.js                   *)
(* (src/unnamed/part_001).  One Node process, one event loop: every        *)
(* socket handler and every setTimeout callback runs to completion, so     *)
(* each is one action.  Time is the value of Date.now() in milliseconds.   *)
(***************************************************************************)
EXTENDS Integers, Sequences, FiniteSets, Bags, TLC

\* ----------------------------------------------------------------- bounds
\* Two bounded instances of the same actions are explored.  `Spec` follows the
\* state machine through many question starts; `SpecPlay` follows a roster of
\* two players through two questions.
FlowSockets == 2         \* connections ever opened
FlowHosts == 1           \* host-capable connections ever opened
FlowGames == 1           \* game objects ever created
FlowTimers == 3          \* setTimeout calls ever made
FlowJoins == 1           \* player:join calls ever accepted
PlaySockets == 2
PlayHosts == 1
PlayGames == 1
PlayTimers == 2
PlayJoins == 2
FlowHorizon == 100000    \* latest Date.now() a timeout may be due at
PlayHorizon == 100000
NameSockets == 2         \* `SpecNames`: joins and re-joins under colliding names
NameHosts == 1
NameGames == 1
NameTimers == 1
NameJoins == 3
NameHorizon == 100000
RegSockets == 2          \* `SpecRegistry`: two hosts and two sessions
RegHosts == 2
RegGames == 2
RegTimers == 1
RegJoins == 1
RegHorizon == 100000
RankSockets == 3         \* `SpecRank`: three players scored on one question
RankHosts == 1
RankGames == 1
RankTimers == 1
RankJoins == 3
RankHorizon == 100000
LiveSockets == 2         \* `SpecLive`: the clock reaches every timeout that is armed
LiveHosts == 1
LiveGames == 1
LiveTimers == 2
LiveJoins == 1
LiveHorizon == 25200

\* ------------------------------------------------------ program constants
Null == -1               \* JS null of questionStart / answerIndex / answerTime
PromptMax == 300
OptionMax == 120
OptionCount == 4
MaxCorrectIndex == 3
MinTimeLimit == 5
MaxTimeLimit == 120
DefaultTimeLimit == 20
GraceMs == 50
BasePoints == 500
BonusScale == 1000
MsPerSec == 1000
NameMax == 24
RevealTop == 10          \* buildLeaderboard(game, 10)
FinalTop == 20           \* rankPlayers(game).slice(0, 20)

\* --------------------------------------------------------------- inputs
\* values of Date.now() at which handlers and callbacks run
FlowClock == {0, 20000, 20100}
PlayClock == {0, 20000, 20100, 25200}

\* values the PIN generator may return, and the codes clients send
FlowPins == {482913}
PlayPins == {482913}
Codes == {482913, 100200}
\* the `name` field of a player:join payload
JoinNames == { <<"S", "a", "m">> }

FlowBounds ==
  [sockets |-> FlowSockets, hosts |-> FlowHosts, games |-> FlowGames, timers |-> FlowTimers,
   joins |-> FlowJoins, clock |-> FlowClock, pins |-> FlowPins, history |-> TRUE,
   names |-> JoinNames, horizon |-> FlowHorizon]
PlayBounds ==
  [sockets |-> PlaySockets, hosts |-> PlayHosts, games |-> PlayGames, timers |-> PlayTimers,
   joins |-> PlayJoins, clock |-> PlayClock, pins |-> PlayPins, history |-> FALSE,
   names |-> JoinNames, horizon |-> PlayHorizon]
\* names that collide by case, by padding and with a generated suffix
NameClock == {0, 20100}
CollidingNames == { <<"S", "a", "m">>, <<"s", "A", "M", " ">>, <<"S", "a", "m", " ", "#", "2">> }
NameBounds ==
  [sockets |-> NameSockets, hosts |-> NameHosts, games |-> NameGames, timers |-> NameTimers,
   joins |-> NameJoins, clock |-> NameClock, pins |-> FlowPins, history |-> FALSE,
   names |-> CollidingNames, horizon |-> NameHorizon]
RegPins == {482913, 100200}
RegBounds ==
  [sockets |-> RegSockets, hosts |-> RegHosts, games |-> RegGames, timers |-> RegTimers,
   joins |-> RegJoins, clock |-> NameClock, pins |-> RegPins, history |-> FALSE,
   names |-> JoinNames, horizon |-> RegHorizon]
RankBounds ==
  [sockets |-> RankSockets, hosts |-> RankHosts, games |-> RankGames, timers |-> RankTimers,
   joins |-> RankJoins, clock |-> NameClock, pins |-> FlowPins, history |-> FALSE,
   names |-> JoinNames, horizon |-> RankHorizon]
LiveClock == {0, 20100, 25200}
LiveBounds ==
  [sockets |-> LiveSockets, hosts |-> LiveHosts, games |-> LiveGames, timers |-> LiveTimers,
   joins |-> LiveJoins, clock |-> LiveClock, pins |-> FlowPins, history |-> FALSE,
   names |-> JoinNames, horizon |-> LiveHorizon]
\* the configured HOST_KEY ("" = not set) and the keys a client may present
NoKey == ""
HostKeys == {NoKey, "secret"}
ProvidedKeys == {NoKey, "secret", "wrong"}

Min(a, b) == IF a < b THEN a ELSE b
Max(a, b) == IF a > b THEN a ELSE b

\* a JS value handed to Number(): a number, or something that converts to NaN
Num(v) == [isNum |-> TRUE, val |-> v]
NaN == [isNum |-> FALSE, val |-> 0]

\* Number(x) || d
NumberOr(x, d) == IF x.isNum /\ x.val # 0 THEN x.val ELSE d

\* s.slice(0, n)
Slice(s, n) == SubSeq(s, 1, Min(Len(s), n))

DefaultOptions == << <<"A">>, <<"B">>, <<"C">>, <<"D">> >>
Opts5 == [isArray |-> TRUE, items |-> << <<"a">>, <<"b">>, <<"c">>, <<"d">>, <<"e">> >>]
NoOpts == [isArray |-> FALSE, items |-> << >>]

RawQ(p, o, c, t) == [prompt |-> p, options |-> o, correctIndex |-> c, timeLimitSec |-> t]

\* the `questions` field of a host:startGame payload
QuizPayloads ==
  { [isArray |-> FALSE, items |-> << >>],
    [isArray |-> TRUE, items |-> << RawQ(<<"Q", "1">>, Opts5, Num(7), NaN),
                                    RawQ(<<"Q", "2">>, NoOpts, Num(0), Num(1)) >>] }

\* the `index` field of a player:answer payload
AnswerInputs == {Num(0), Num(9)}

VARIABLES
  hostKey,    \* HOST_KEY
  now,        \* Date.now()
  sockets,    \* sockets[s]: the connection with id s
  heap,       \* heap[g]: the Game object created g-th
  games,      \* the Map `games`, as its entries in insertion order
  timers,     \* the bag of pending setTimeout callbacks of startQuestion
  armed,      \* how many setTimeout calls startQuestion has made
  joined,     \* how many player:join calls have added a player
  forced,     \* history: the timeouts whose question the host has ended
  emitted,    \* what the last handler emitted, in order
  crashed     \* an exception escaped a handler: the process is gone

vars == <<hostKey, now, sockets, heap, games, timers, armed, joined, forced, emitted, crashed>>

Ev(to, ev) == [to |-> to, ev |-> ev]

IsOpen(s) == s \in DOMAIN sockets /\ sockets[s].open

\* ------------------------------------------------------------ the registry
HasGame(code) == \E i \in DOMAIN games : games[i].code = code
GidOf(code) == games[CHOOSE i \in DOMAIN games : games[i].code = code].gid

\* games.set(code, game)
GamesSet(code, gid) ==
  IF HasGame(code)
  THEN [i \in DOMAIN games |-> IF games[i].code = code THEN [code |-> code, gid |-> gid] ELSE games[i]]
  ELSE Append(games, [code |-> code, gid |-> gid])

RemoveAt(seq, i) == SubSeq(seq, 1, i - 1) \o SubSeq(seq, i + 1, Len(seq))

\* ------------------------------------------------------------- the roster
HasPlayer(g, s) == \E i \in DOMAIN g.players : g.players[i].id = s
PlayerPos(g, s) == CHOOSE i \in DOMAIN g.players : g.players[i].id = s

NewPlayer(s, name) ==
  [id |-> s, name |-> name, score |-> 0, answered |-> FALSE,
   answerIndex |-> Null, answerTime |-> Null]

\* game.players.set(id, player): a Map keeps the position of an existing key
PlayersSet(g, p) ==
  IF HasPlayer(g, p.id)
  THEN [g.players EXCEPT ![PlayerPos(g, p.id)] = p]
  ELSE Append(g.players, p)

NewGame(code, s) ==
  [code |-> code, hostId |-> s, players |-> << >>, questions |-> << >>,
   state |-> "lobby", currentIndex |-> 0, questionStart |-> Null,
   answersSubmitted |-> 0]

\* ------------------------------------------------------------------ names
IsSpace(c) == c = " "

RECURSIVE TrimLeft(_)
TrimLeft(s) == IF s # << >> /\ IsSpace(Head(s)) THEN TrimLeft(Tail(s)) ELSE s

RECURSIVE TrimRight(_)
TrimRight(s) ==
  IF s # << >> /\ IsSpace(s[Len(s)]) THEN TrimRight(SubSeq(s, 1, Len(s) - 1)) ELSE s

\* name.trim()
Trim(s) == TrimRight(TrimLeft(s))

\* name.replace(/\s+/g, ' ')
RECURSIVE CollapseSpaces(_)
CollapseSpaces(s) ==
  IF s = << >> THEN << >>
  ELSE IF IsSpace(Head(s))
       THEN <<" ">> \o CollapseSpaces(TrimLeft(s))
       ELSE <<Head(s)>> \o CollapseSpaces(Tail(s))

PlayerDefaultName == <<"P", "l", "a", "y", "e", "r">>

sanitizeName(name) ==
  IF name = << >> THEN PlayerDefaultName
  ELSE LET cut == Slice(Trim(name), NameMax)
       IN IF cut = << >> THEN PlayerDefaultName ELSE CollapseSpaces(cut)

LowerChar(c) ==
  CASE c = "S" -> "s"
    [] c = "A" -> "a"
    [] c = "M" -> "m"
    [] c = "P" -> "p"
    [] OTHER -> c

\* s.toLowerCase()
ToLower(s) == [i \in DOMAIN s |-> LowerChar(s[i])]

DigitChar(d) == <<"0", "1", "2", "3", "4", "5", "6", "7", "8", "9">>[d + 1]

\* the decimal digits of i, as `${i}` prints them
RECURSIVE Digits(_)
Digits(i) == IF i < 10 THEN <<DigitChar(i)>> ELSE Digits(i \div 10) \o <<DigitChar(i % 10)>>

\* the roster's names without the toLowerCase of line 71
RosterNamesAsTyped(g) == {g.players[i].name : i \in DOMAIN g.players}

RosterNames(g) == {ToLower(g.players[i].name) : i \in DOMAIN g.players}

RECURSIVE NextFreeName(_, _, _)
NextFreeName(names, base, i) ==
  LET candidate == base \o <<" ", "#">> \o Digits(i)
  IN IF ToLower(candidate) \in names THEN NextFreeName(names, base, i + 1) ELSE candidate

ensureUniqueName(g, desired) ==
  LET names == RosterNames(g)
      base == sanitizeName(desired)
  IN IF ToLower(base) \in names THEN NextFreeName(names, base, 2) ELSE base

\* -------------------------------------------------------------- questions
\* the sanitising map of host:startGame
SanitizeQuestion(q) ==
  [prompt |-> Slice(q.prompt, PromptMax),
   options |-> IF q.options.isArray
               THEN LET cut == Slice(q.options.items, OptionCount)
                    IN [i \in DOMAIN cut |-> Slice(cut[i], OptionMax)]
               ELSE DefaultOptions,
   correctIndex |-> Min(MaxCorrectIndex, Max(0, NumberOr(q.correctIndex, 0))),
   timeLimitSec |-> Min(MaxTimeLimit, Max(MinTimeLimit, NumberOr(q.timeLimitSec, DefaultTimeLimit)))]

SanitizeQuestions(payload) ==
  LET qs == IF payload.isArray THEN payload.items ELSE << >>
  IN [i \in DOMAIN qs |-> SanitizeQuestion(qs[i])]

\* game.questions[game.currentIndex] is not undefined
HasCurrentQuestion(g) == g.currentIndex + 1 \in DOMAIN g.questions
CurrentQuestion(g) == g.questions[g.currentIndex + 1]

\* ---------------------------------------------------------------- scoring
\* Math.round(n / d) for n >= 0, d > 0: halves round up
RoundDiv(n, d) == (2 * n + d) \div (2 * d)

\* scoring that pays the speed bonus alone
ScoreDeltaBonusOnly(q, p, start) ==
  IF p.answered /\ p.answerIndex = q.correctIndex
  THEN LET elapsedMs == Max(0, p.answerTime - start)
           remMs == Max(0, q.timeLimitSec * MsPerSec - elapsedMs)
       IN RoundDiv(BonusScale * remMs, q.timeLimitSec * MsPerSec)
  ELSE 0

\* the points revealAnswer adds to player p for question q started at `start`
ScoreDelta(q, p, start) ==
  IF p.answered /\ p.answerIndex = q.correctIndex
  THEN LET elapsedMs == Max(0, p.answerTime - start)
           remMs == Max(0, q.timeLimitSec * MsPerSec - elapsedMs)
           speedBonus == RoundDiv(BonusScale * remMs, q.timeLimitSec * MsPerSec)
       IN BasePoints + speedBonus
  ELSE 0

\* ------------------------------------------------------------ leaderboard
currentPlayersArray(g) ==
  [i \in DOMAIN g.players |->
     [id |-> g.players[i].id, name |-> g.players[i].name, score |-> g.players[i].score]]

\* an insertion that puts p in front of the entries whose score equals its own
RECURSIVE InsertBeforeTies(_, _)
InsertBeforeTies(sorted, p) ==
  IF sorted = << >> THEN << p >>
  ELSE IF Head(sorted).score > p.score
       THEN << Head(sorted) >> \o InsertBeforeTies(Tail(sorted), p)
       ELSE << p >> \o sorted

\* p goes behind every entry whose score is at least its own
RECURSIVE InsertByScore(_, _)
InsertByScore(sorted, p) ==
  IF sorted = << >> THEN << p >>
  ELSE IF Head(sorted).score >= p.score
       THEN << Head(sorted) >> \o InsertByScore(Tail(sorted), p)
       ELSE << p >> \o sorted

\* arr.sort((a,b) => b.score - a.score): the stable sort of Array.prototype.sort
RECURSIVE SortByScore(_)
SortByScore(arr) ==
  IF arr = << >> THEN << >>
  ELSE InsertByScore(SortByScore(SubSeq(arr, 1, Len(arr) - 1)), arr[Len(arr)])

\* a sort that lets the later of two equal scores overtake the earlier
RECURSIVE SortByScoreUnstable(_)
SortByScoreUnstable(arr) ==
  IF arr = << >> THEN << >>
  ELSE InsertBeforeTies(SortByScoreUnstable(SubSeq(arr, 1, Len(arr) - 1)), arr[Len(arr)])

rankPlayersUnstable(g) ==
  LET arr == SortByScoreUnstable(currentPlayersArray(g))
  IN [i \in DOMAIN arr |->
        [id |-> arr[i].id, name |-> arr[i].name, score |-> arr[i].score, rank |-> i]]

rankPlayers(g) ==
  LET arr == SortByScore(currentPlayersArray(g))
  IN [i \in DOMAIN arr |->
        [id |-> arr[i].id, name |-> arr[i].name, score |-> arr[i].score, rank |-> i]]

buildLeaderboard(g, topN) == Slice(rankPlayers(g), topN)

\* an emit whose payload carries a leaderboard
BoardEv(to, ev, board) == [to |-> to, ev |-> ev, leaderboard |-> board]

\* ------------------------------------------------------- session engine
LobbyEvents(g) == << Ev(g.code, "lobby:update"), Ev(g.hostId, "host:lobby:update") >>

ResetAnswer(p) == [p EXCEPT !.answered = FALSE, !.answerIndex = Null, !.answerTime = Null]

\* startQuestion that clears the whole player record, score included
startQuestionClearingScores(g) ==
  [g EXCEPT !.state = "question",
            !.questionStart = now,
            !.answersSubmitted = 0,
            !.players = [i \in DOMAIN g.players |-> NewPlayer(g.players[i].id, g.players[i].name)]]

\* startQuestion: the game it leaves
startQuestion(g) ==
  [g EXCEPT !.state = "question",
            !.questionStart = now,
            !.answersSubmitted = 0,
            !.players = [i \in DOMAIN g.players |-> ResetAnswer(g.players[i])]]

QuestionEvents(g) == << Ev(g.code, "question:show"), Ev(g.hostId, "host:question:show") >>

\* the delay startQuestion passes to setTimeout
TimeoutDelay(q) == q.timeLimitSec * MsPerSec + GraceMs

\* the callback startQuestion schedules: it captures the game object and idx
QuestionTimer(gid, g) ==
  [gid |-> gid, idx |-> g.currentIndex, due |-> now + TimeoutDelay(CurrentQuestion(g))]

\* the guard of the setTimeout callback
TimerIsCurrent(g, idx) == g.state = "question" /\ g.currentIndex = idx

\* the pending timeouts that startQuestion scheduled for the question game
\* gid is showing now
ScheduledTimeouts(gid) ==
  LET g == heap[gid]
  IN IF g.state = "question" /\ HasCurrentQuestion(g)
     THEN {t \in BagToSet(timers) : /\ t.gid = gid
                                    /\ t.idx = g.currentIndex
                                    /\ t.due = g.questionStart + TimeoutDelay(CurrentQuestion(g))}
     ELSE {}

\* revealAnswer on a game whose current question exists
revealAnswer(g) ==
  LET q == CurrentQuestion(g)
  IN [g EXCEPT !.state = "reveal",
               !.players = [i \in DOMAIN g.players |->
                  [g.players[i] EXCEPT !.score = @ + ScoreDelta(q, g.players[i], g.questionStart)]]]

\* what revealAnswer emits on game g, which it is about to score
RevealEvents(g) ==
  LET leaderboard == buildLeaderboard(revealAnswer(g), RevealTop)
  IN << BoardEv(g.code, "question:reveal", leaderboard) >>
     \o [i \in DOMAIN g.players |-> Ev(g.players[i].id, "question:reveal:me")]
     \o << BoardEv(g.hostId, "host:question:reveal", leaderboard) >>

endGame(g) == [g EXCEPT !.state = "ended"]

GameOverEvents(g) ==
  LET leaderboard == Slice(rankPlayers(g), FinalTop)
  IN << BoardEv(g.code, "game:over", leaderboard), BoardEv(g.hostId, "host:game:over", leaderboard) >>

HostError(s) == << Ev(s, "host:error") >>

\* ---------------------------------------------------------------- actions
Init ==
  /\ hostKey \in HostKeys
  /\ now = 0
  /\ sockets = << >>
  /\ heap = << >>
  /\ games = << >>
  /\ timers = EmptyBag
  /\ armed = 0
  /\ joined = 0
  /\ forced = {}
  /\ emitted = << >>
  /\ crashed = FALSE

\* io.on('connection'): the host flag is computed once, from the handshake
IsHostFlag(key) == hostKey # NoKey /\ key # NoKey /\ hostKey = key

HostCount == Cardinality({s \in DOMAIN sockets : sockets[s].isHost})

Connect(b, key) ==
  /\ Len(sockets) < b.sockets
  /\ IsHostFlag(key) => HostCount < b.hosts
  /\ sockets' = Append(sockets, [open |-> TRUE, isHost |-> IsHostFlag(key)])
  /\ emitted' = << >>
  /\ UNCHANGED <<hostKey, now, heap, games, timers, armed, joined, forced, crashed>>

\* Date.now() moves on between two handlers
Tick(t) ==
  /\ t > now
  /\ now' = t
  /\ emitted' = << >>
  /\ UNCHANGED <<hostKey, sockets, heap, games, timers, armed, joined, forced, crashed>>

\* the handler found no game it may act on: it returns, emitting nothing
Ignored == /\ emitted' = << >>
           /\ UNCHANGED <<heap, games, timers, armed, forced, crashed>>

\* the handler refuses a connection that is not host-capable
Refused(s) == /\ emitted' = HostError(s)
              /\ UNCHANGED <<heap, games, timers, armed, forced, crashed>>

\* a lookup that accepts any connection for an existing game
OwnsGameAnyHost(s, code) == HasGame(code)

\* host:startGame, host:next, host:end, host:join find the game only for its host
OwnsGame(s, code) == HasGame(code) /\ heap[GidOf(code)].hostId = s

\* host:createGame without the test of the host flag
HostCreateGameUnchecked(b, s, code) ==
  /\ IsOpen(s)
  /\ Len(heap) < b.games
  /\ heap' = Append(heap, NewGame(code, s))
  /\ games' = GamesSet(code, Len(heap) + 1)
  /\ emitted' = << Ev(s, "host:gameCreated") >>
  /\ UNCHANGED <<timers, armed, forced, crashed>>
  /\ UNCHANGED <<hostKey, now, sockets, joined>>

HostCreateGame(b, s, code) ==
  /\ IsOpen(s)
  /\ IF ~sockets[s].isHost
     THEN Refused(s)
     ELSE /\ Len(heap) < b.games
          /\ heap' = Append(heap, NewGame(code, s))
          /\ games' = GamesSet(code, Len(heap) + 1)
          /\ emitted' = << Ev(s, "host:gameCreated") >>
          /\ UNCHANGED <<timers, armed, forced, crashed>>
  /\ UNCHANGED <<hostKey, now, sockets, joined>>

\* host:startGame past its guards
StartGame(b, gid, payload) ==
  LET g1 == [heap[gid] EXCEPT !.questions = SanitizeQuestions(payload)]
      g2 == [g1 EXCEPT !.state = "question", !.currentIndex = 0]
  IN IF Len(g1.questions) = 0
     THEN /\ heap' = [heap EXCEPT ![gid] = g1]
          /\ emitted' = << >>
          /\ UNCHANGED <<games, timers, armed, forced, crashed>>
     ELSE /\ armed < b.timers
          /\ QuestionTimer(gid, g2).due <= b.horizon
          /\ heap' = [heap EXCEPT ![gid] = startQuestion(g2)]
          /\ timers' = timers (+) SetToBag({QuestionTimer(gid, g2)})
          /\ armed' = armed + 1
          /\ emitted' = QuestionEvents(g2)
          /\ UNCHANGED <<games, forced, crashed>>

HostStartGame(b, s, code, payload) ==
  /\ IsOpen(s)
  /\ IF ~sockets[s].isHost THEN Refused(s)
     ELSE IF ~OwnsGame(s, code) THEN Ignored
     ELSE StartGame(b, GidOf(code), payload)
  /\ UNCHANGED <<hostKey, now, sockets, joined>>

\* host:next that does not wait for the reveal
NextQuestionUnguarded(b, gid) ==
  LET g == heap[gid]
      idx == g.currentIndex + 1
      g1 == [g EXCEPT !.currentIndex = idx]
  IN IF idx >= Len(g.questions)
     THEN /\ heap' = [heap EXCEPT ![gid] = endGame(g)]
          /\ emitted' = GameOverEvents(g)
          /\ UNCHANGED <<games, timers, armed, forced, crashed>>
     ELSE /\ armed < b.timers
          /\ QuestionTimer(gid, g1).due <= b.horizon
          /\ heap' = [heap EXCEPT ![gid] = startQuestion(g1)]
          /\ timers' = timers (+) SetToBag({QuestionTimer(gid, g1)})
          /\ armed' = armed + 1
          /\ emitted' = QuestionEvents(g1)
          /\ UNCHANGED <<games, forced, crashed>>

\* host:next past its ownership guards
NextQuestion(b, gid) ==
  LET g == heap[gid]
      idx == g.currentIndex + 1
      g1 == [g EXCEPT !.currentIndex = idx]
  IN IF g.state = "question" THEN Ignored
     ELSE IF idx >= Len(g.questions)
     THEN /\ heap' = [heap EXCEPT ![gid] = endGame(g)]
          /\ emitted' = GameOverEvents(g)
          /\ UNCHANGED <<games, timers, armed, forced, crashed>>
     ELSE /\ armed < b.timers
          /\ QuestionTimer(gid, g1).due <= b.horizon
          /\ heap' = [heap EXCEPT ![gid] = startQuestion(g1)]
          /\ timers' = timers (+) SetToBag({QuestionTimer(gid, g1)})
          /\ armed' = armed + 1
          /\ emitted' = QuestionEvents(g1)
          /\ UNCHANGED <<games, forced, crashed>>

HostNext(b, s, code) ==
  /\ IsOpen(s)
  /\ IF ~sockets[s].isHost THEN Refused(s)
     ELSE IF ~OwnsGame(s, code) THEN Ignored
     ELSE NextQuestion(b, GidOf(code))
  /\ UNCHANGED <<hostKey, now, sockets, joined>>

HostEnd(b, s, code) ==
  /\ IsOpen(s)
  /\ IF ~sockets[s].isHost THEN Refused(s)
     ELSE IF ~OwnsGame(s, code) THEN Ignored
     ELSE /\ heap' = [heap EXCEPT ![GidOf(code)] = endGame(@)]
          /\ emitted' = GameOverEvents(heap[GidOf(code)])
          /\ forced' = IF b.history THEN forced \cup ScheduledTimeouts(GidOf(code)) ELSE forced
          /\ UNCHANGED <<games, timers, armed, crashed>>
  /\ UNCHANGED <<hostKey, now, sockets, joined>>

HostJoin(s, code) ==
  /\ IsOpen(s)
  /\ IF ~sockets[s].isHost THEN Refused(s)
     ELSE IF ~OwnsGame(s, code) THEN Ignored
     ELSE /\ emitted' = LobbyEvents(heap[GidOf(code)])
          /\ UNCHANGED <<heap, games, timers, armed, forced, crashed>>
  /\ UNCHANGED <<hostKey, now, sockets, joined>>

\* player:join that does not look at the state of the game
PlayerJoinAnyState(b, s, code, name) ==
  /\ IsOpen(s)
  /\ IF ~HasGame(code)
     THEN /\ emitted' = << Ev(s, "player:error") >>
          /\ UNCHANGED <<heap, games, timers, armed, joined, forced, crashed>>
     ELSE LET gid == GidOf(code)
              g == heap[gid]
              g1 == [g EXCEPT !.players = PlayersSet(g, NewPlayer(s, ensureUniqueName(g, name)))]
          IN /\ joined < b.joins
             /\ heap' = [heap EXCEPT ![gid] = g1]
             /\ joined' = joined + 1
             /\ emitted' = << Ev(s, "player:joined") >> \o LobbyEvents(g1)
             /\ UNCHANGED <<games, timers, armed, forced, crashed>>
  /\ UNCHANGED <<hostKey, now, sockets>>

PlayerJoin(b, s, code, name) ==
  /\ IsOpen(s)
  /\ IF ~HasGame(code) \/ heap[GidOf(code)].state # "lobby"
     THEN /\ emitted' = << Ev(s, "player:error") >>
          /\ UNCHANGED <<heap, games, timers, armed, joined, forced, crashed>>
     ELSE LET gid == GidOf(code)
              g == heap[gid]
              g1 == [g EXCEPT !.players = PlayersSet(g, NewPlayer(s, ensureUniqueName(g, name)))]
          IN /\ joined < b.joins
             /\ heap' = [heap EXCEPT ![gid] = g1]
             /\ joined' = joined + 1
             /\ emitted' = << Ev(s, "player:joined") >> \o LobbyEvents(g1)
             /\ UNCHANGED <<games, timers, armed, forced, crashed>>
  /\ UNCHANGED <<hostKey, now, sockets>>

\* Math.max(0, Math.min(3, Number(index) || 0))
ClampAnswer(index) == Max(0, Min(MaxCorrectIndex, NumberOr(index, 0)))

\* the "too late" test of player:answer
TooLate(g) == now - g.questionStart > CurrentQuestion(g).timeLimitSec * MsPerSec

\* player:answer once the game, the player and the question state are found
Answer(gid, s, index) ==
  LET g == heap[gid]
      pos == PlayerPos(g, s)
      p1 == [g.players[pos] EXCEPT !.answered = TRUE,
                                   !.answerIndex = ClampAnswer(index),
                                   !.answerTime = now]
      g1 == [g EXCEPT !.players[pos] = p1, !.answersSubmitted = @ + 1]
  IN IF ~HasCurrentQuestion(g)
     THEN \* q is undefined: q.timeLimitSec throws out of the handler
          /\ crashed' = TRUE
          /\ emitted' = << >>
          /\ UNCHANGED <<heap, games, timers, armed, forced>>
     ELSE IF TooLate(g) \/ g.players[pos].answered THEN Ignored
     ELSE /\ heap' = [heap EXCEPT ![gid] = g1]
          /\ emitted' = << Ev(g.hostId, "host:answerProgress"), Ev(s, "player:answerLocked") >>
          /\ UNCHANGED <<games, timers, armed, forced, crashed>>

PlayerAnswer(s, code, index) ==
  /\ IsOpen(s)
  /\ IF ~HasGame(code) THEN Ignored
     ELSE IF ~HasPlayer(heap[GidOf(code)], s) THEN Ignored
     ELSE IF heap[GidOf(code)].state # "question" THEN Ignored
     ELSE Answer(GidOf(code), s, index)
  /\ UNCHANGED <<hostKey, now, sockets, joined>>

\* the first entry of `games` whose game s hosts, or 0
HostedEntry(s) ==
  LET hits == {i \in DOMAIN games : heap[games[i].gid].hostId = s}
  IN IF hits = {} THEN 0 ELSE CHOOSE i \in hits : \A j \in hits : i <= j

\* the first entry of `games` whose roster holds s, or 0
PlayedEntry(s) ==
  LET hits == {i \in DOMAIN games : HasPlayer(heap[games[i].gid], s)}
  IN IF hits = {} THEN 0 ELSE CHOOSE i \in hits : \A j \in hits : i <= j

Disconnect(s) ==
  /\ IsOpen(s)
  /\ sockets' = [sockets EXCEPT ![s].open = FALSE]
  /\ IF HostedEntry(s) # 0
     THEN /\ emitted' = << Ev(games[HostedEntry(s)].code, "game:hostDisconnected") >>
          /\ games' = RemoveAt(games, HostedEntry(s))
          /\ UNCHANGED <<heap, timers, armed, forced, crashed>>
     ELSE IF PlayedEntry(s) # 0
     THEN LET gid == games[PlayedEntry(s)].gid
              g == heap[gid]
              g1 == [g EXCEPT !.players = RemoveAt(g.players, PlayerPos(g, s))]
          IN /\ heap' = [heap EXCEPT ![gid] = g1]
             /\ emitted' = LobbyEvents(g1)
             /\ UNCHANGED <<games, timers, armed, forced, crashed>>
     ELSE Ignored
  /\ UNCHANGED <<hostKey, now, joined>>

\* the setTimeout callback of startQuestion runs, no earlier than its delay
TimerFire(t) ==
  /\ BagIn(t, timers)
  /\ now >= t.due
  /\ LET g == heap[t.gid]
     IN IF ~TimerIsCurrent(g, t.idx)
        THEN /\ emitted' = << >>
             /\ UNCHANGED <<heap, crashed>>
        ELSE IF ~HasCurrentQuestion(g)
        THEN \* q is undefined: revealAnswer sets the state, then q.correctIndex throws
             /\ heap' = [heap EXCEPT ![t.gid].state = "reveal"]
             /\ crashed' = TRUE
             /\ emitted' = << >>
        ELSE /\ heap' = [heap EXCEPT ![t.gid] = revealAnswer(g)]
             /\ emitted' = RevealEvents(g)
             /\ UNCHANGED crashed
  /\ timers' = timers (-) SetToBag({t})
  /\ forced' = forced \cap BagToSet(timers')
  /\ UNCHANGED <<hostKey, now, sockets, games, armed, joined>>

Next(b) ==
  /\ ~crashed
  /\ \/ \E key \in ProvidedKeys : Connect(b, key)
     \/ \E t \in b.clock : Tick(t)
     \/ \E s \in DOMAIN sockets, code \in b.pins : HostCreateGame(b, s, code)
     \/ \E s \in DOMAIN sockets, code \in Codes, payload \in QuizPayloads :
          HostStartGame(b, s, code, payload)
     \/ \E s \in DOMAIN sockets, code \in Codes : HostNext(b, s, code)
     \/ \E s \in DOMAIN sockets, code \in Codes : HostEnd(b, s, code)
     \/ \E s \in DOMAIN sockets, code \in Codes : HostJoin(s, code)
     \/ \E s \in DOMAIN sockets, code \in Codes, name \in b.names :
          PlayerJoin(b, s, code, name)
     \/ \E s \in DOMAIN sockets, code \in Codes, index \in AnswerInputs :
          PlayerAnswer(s, code, index)
     \/ \E s \in DOMAIN sockets : Disconnect(s)
     \/ \E t \in BagToSet(timers) : TimerFire(t)

NextFlow == Next(FlowBounds)
NextPlay == Next(PlayBounds)

Spec == Init /\ [][NextFlow]_vars
SpecPlay == Init /\ [][NextPlay]_vars

NextNames == Next(NameBounds)
SpecNames == Init /\ [][NextNames]_vars

NextRegistry == Next(RegBounds)
SpecRegistry == Init /\ [][NextRegistry]_vars

NextRank == Next(RankBounds)
SpecRank == Init /\ [][NextRank]_vars

\* the event loop runs a timeout callback once its delay has passed, and time
\* passes, for as long as the process lives
TimeoutRuns == ~crashed /\ \E t \in BagToSet(timers) : TimerFire(t)
TimePasses == ~crashed /\ \E t \in LiveClock : Tick(t)

NextLive == Next(LiveBounds)
SpecLive == Init /\ [][NextLive]_vars /\ WF_vars(TimeoutRuns) /\ WF_vars(TimePasses)

\* ================================================================ claims
\* the game objects the registry holds
Sessions == {games[i].gid : i \in DOMAIN games}

PlayerIds(g) == {g.players[i].id : i \in DOMAIN g.players}
PlayerOf(g, s) == g.players[PlayerPos(g, s)]

\* C1: once a session is `ended`, no step moves it to another state.
C1_EndedIsTerminal ==
  [][\A g \in Sessions \cap Sessions' :
       heap[g].state = "ended" => heap'[g].state = "ended"]_vars

\* C2: a session goes from `question` to `reveal` only when the time since
\* questionStart is at least the time limit of the question shown.
C2_RevealOnlyAfterTimeLimit ==
  [][\A g \in Sessions :
       (/\ heap[g].state = "question"
        /\ heap'[g].state = "reveal"
        /\ HasCurrentQuestion(heap[g]))
       => now - heap[g].questionStart >= CurrentQuestion(heap[g]).timeLimitSec * MsPerSec]_vars

\* C3: a timeout whose question the host has ended before it fired changes
\* no game and emits nothing when it fires.
C3_StaleTimerNoEffect ==
  [][\A t \in BagToSet(timers) :
       (t \in forced /\ TimerFire(t)) => (heap' = heap /\ emitted' = << >>)]_vars

\* C4: host:next sent by the owning host while its session is in `question`
\* changes nothing and emits nothing, and currentIndex is never incremented
\* out of `question`.
C4_DoubleAdvanceNoSkip ==
  [][/\ \A s \in DOMAIN sockets, c \in Codes :
          (/\ HostNext(FlowBounds, s, c)
           /\ sockets[s].isHost
           /\ OwnsGame(s, c)
           /\ heap[GidOf(c)].state = "question")
          => (heap' = heap /\ games' = games /\ timers' = timers /\ emitted' = << >>)
     /\ \A g \in Sessions \cap Sessions' :
          heap'[g].currentIndex = heap[g].currentIndex + 1 => heap[g].state # "question"]_vars

\* the owning host has advanced a revealed and scored question to the second one
C4_Witness ==
  \E g \in Sessions :
    /\ heap[g].state = "question"
    /\ heap[g].currentIndex = 1
    /\ emitted = QuestionEvents(heap[g])
    /\ \E i \in DOMAIN heap[g].players : heap[g].players[i].score > 0

\* C5: currentIndex changes only by +1, and only in a host:next step.
C5_IndexStepsByOne ==
  [][\A g \in Sessions \cap Sessions' :
       heap'[g].currentIndex # heap[g].currentIndex
       => /\ heap'[g].currentIndex = heap[g].currentIndex + 1
          /\ \E s \in DOMAIN sockets, c \in Codes : HostNext(FlowBounds, s, c)]_vars

\* C6: in `question` and `reveal`, currentIndex points at an existing question.
C6_IndexInRange ==
  \A g \in Sessions :
    heap[g].state \in {"question", "reveal"}
    => (0 <= heap[g].currentIndex /\ heap[g].currentIndex < Len(heap[g].questions))

\* C7: the question list of a session that has left `lobby` never changes.
C7_QuestionsFrozen ==
  [][\A g \in Sessions \cap Sessions' :
       heap[g].state # "lobby" => heap'[g].questions = heap[g].questions]_vars

\* the four conditions under which a submission is recorded
AnswerAccepted(s, c) ==
  /\ HasGame(c)
  /\ LET g == heap[GidOf(c)]
     IN /\ g.state = "question"
        /\ HasPlayer(g, s)
        /\ ~PlayerOf(g, s).answered
        /\ HasCurrentQuestion(g)
        /\ now - g.questionStart <= CurrentQuestion(g).timeLimitSec * MsPerSec

\* C8: a submission is recorded only under the four conditions, and changes
\* nothing otherwise; a recorded answer stays until a question is started.
C8_AnswerAcceptance ==
  [][/\ \A s \in DOMAIN sockets, c \in Codes, i \in AnswerInputs :
          PlayerAnswer(s, c, i)
          => IF AnswerAccepted(s, c)
             THEN /\ PlayerOf(heap'[GidOf(c)], s).answered
                  /\ PlayerOf(heap'[GidOf(c)], s).answerIndex = ClampAnswer(i)
                  /\ PlayerOf(heap'[GidOf(c)], s).answerTime = now
             ELSE UNCHANGED <<heap, games, timers, crashed>> /\ emitted' = << >>
     /\ \A g \in DOMAIN heap : \A s \in PlayerIds(heap[g]) \cap PlayerIds(heap'[g]) :
          LET p == PlayerOf(heap[g], s)
              q == PlayerOf(heap'[g], s)
          IN (p.answered /\ armed' = armed)
             => (q.answered /\ q.answerIndex = p.answerIndex /\ q.answerTime = p.answerTime)]_vars

\* the score delta the scoring rule gives a player at a reveal
ExpectedDelta(g, p) ==
  IF HasCurrentQuestion(g) /\ p.answered /\ p.answerIndex = CurrentQuestion(g).correctIndex
  THEN LET limitMs == CurrentQuestion(g).timeLimitSec * MsPerSec
           elapsedMs == p.answerTime - g.questionStart
           leftMs == IF limitMs > elapsedMs THEN limitMs - elapsedMs ELSE 0
       IN 500 + ((2 * 1000 * leftMs + limitMs) \div (2 * limitMs))
  ELSE 0

IsReveal(g) == heap[g].state = "question" /\ heap'[g].state = "reveal"

\* C9: at a reveal every player's score grows by the scoring rule; with a
\* 20 s limit an answer at 0 s earns 1500, one at 20 s earns 500, and no
\* recorded answer is later than the limit.
C9_ScoreDelta ==
  /\ [][\A g \in DOMAIN heap : IsReveal(g) =>
          /\ PlayerIds(heap'[g]) = PlayerIds(heap[g])
          /\ \A s \in PlayerIds(heap[g]) :
               LET p == PlayerOf(heap[g], s)
                   d == PlayerOf(heap'[g], s).score - p.score
               IN /\ d = ExpectedDelta(heap[g], p)
                  /\ (/\ HasCurrentQuestion(heap[g])
                      /\ CurrentQuestion(heap[g]).timeLimitSec = 20
                      /\ p.answered
                      /\ p.answerIndex = CurrentQuestion(heap[g]).correctIndex)
                     => /\ p.answerTime - heap[g].questionStart = 0 => d = 1500
                        /\ p.answerTime - heap[g].questionStart = 20000 => d = 500]_vars
  /\ [](\A g \in DOMAIN heap : \A i \in DOMAIN heap[g].players :
          (heap[g].state = "question" /\ HasCurrentQuestion(heap[g]) /\ heap[g].players[i].answered)
          => heap[g].players[i].answerTime - heap[g].questionStart
               <= CurrentQuestion(heap[g]).timeLimitSec * MsPerSec)

\* a reveal has just paid 1500 to one player and 500 to another
C9_Witness ==
  \E g \in Sessions :
    /\ heap[g].state = "reveal"
    /\ emitted # << >> /\ emitted[1].ev = "question:reveal" /\ emitted[1].to = heap[g].code
    /\ \E i, j \in DOMAIN heap[g].players :
         /\ heap[g].players[i].score = 1500
         /\ heap[g].players[i].answerTime = heap[g].questionStart
         /\ heap[g].players[j].score = 500
         /\ heap[g].players[j].answerTime = heap[g].questionStart + 20000

\* C10: scores are never negative, never decrease while the player is in the
\* roster, and change only in a step from `question` to `reveal`.
C10_ScoreMonotone ==
  /\ [](\A g \in DOMAIN heap : \A i \in DOMAIN heap[g].players :
          heap[g].players[i].score \in Nat)
  /\ [][\A g \in DOMAIN heap :
          \A i \in DOMAIN heap[g].players, j \in DOMAIN heap'[g].players :
            heap'[g].players[j].id = heap[g].players[i].id
            => /\ heap'[g].players[j].score >= heap[g].players[i].score
               /\ heap'[g].players[j].score # heap[g].players[i].score => IsReveal(g)]_vars

\* a player has been paid at two reveals
C10_Witness ==
  \E g \in Sessions : \E i \in DOMAIN heap[g].players :
    /\ heap[g].players[i].score = 3000
    /\ heap[g].state = "reveal"

\* C11: no two players of one roster have names that are equal ignoring case.
C11_NamesUnique ==
  \A g \in DOMAIN heap : \A i, j \in DOMAIN heap[g].players :
    i # j => ToLower(heap[g].players[i].name) # ToLower(heap[g].players[j].name)

\* two players share a roster, one of them under a suffix generated past a
\* suffix that was already taken
C11_Witness ==
  \E g \in Sessions :
    /\ Len(heap[g].players) = 2
    /\ \E i \in DOMAIN heap[g].players :
         ToLower(heap[g].players[i].name) = <<"s", "a", "m", " ", "#", "3">>

\* C12: a join for an unknown code, or for a session that is not in `lobby`,
\* changes no game and sends player:error to the joiner; outside `lobby` a
\* roster never gains a player.
C12_JoinOnlyInLobby ==
  [][/\ \A s \in DOMAIN sockets, c \in Codes, n \in JoinNames :
          (/\ PlayerJoin(FlowBounds, s, c, n)
           /\ (~HasGame(c) \/ heap[GidOf(c)].state # "lobby"))
          => (heap' = heap /\ games' = games /\ emitted' = << Ev(s, "player:error") >>)
     /\ \A g \in DOMAIN heap :
          heap[g].state # "lobby" => PlayerIds(heap'[g]) \subseteq PlayerIds(heap[g])]_vars

\* a join has just been refused while a session with a player shows a question
C12_Witness ==
  /\ \E s \in DOMAIN sockets : emitted = << Ev(s, "player:error") >>
  /\ \E g \in Sessions : heap[g].state = "question" /\ heap[g].players # << >>

\* a host-only event sent by connection s
HostOnlyEvent(s) ==
  \/ \E c \in FlowPins : HostCreateGame(FlowBounds, s, c)
  \/ \E c \in Codes, payload \in QuizPayloads : HostStartGame(FlowBounds, s, c, payload)
  \/ \E c \in Codes : HostNext(FlowBounds, s, c)
  \/ \E c \in Codes : HostEnd(FlowBounds, s, c)
  \/ \E c \in Codes : HostJoin(s, c)

\* C13: a host-only event from a connection whose host flag is false changes
\* no game and not the registry and is answered with host:error; the flag of
\* a connection never changes, and it is false for every connection when no
\* HOST_KEY is configured.
C13_HostFlagRequired ==
  /\ [][\A s \in DOMAIN sockets :
          /\ (~sockets[s].isHost /\ HostOnlyEvent(s))
             => (heap' = heap /\ games' = games /\ timers' = timers /\ emitted' = HostError(s))
          /\ sockets'[s].isHost = sockets[s].isHost]_vars
  /\ [](hostKey = NoKey => \A s \in DOMAIN sockets : ~sockets[s].isHost)

\* a connection without the host flag has just been refused while a HOST_KEY
\* is configured and a session exists
C13_Witness ==
  /\ hostKey # NoKey
  /\ Sessions # {}
  /\ \E s \in DOMAIN sockets : ~sockets[s].isHost /\ emitted = HostError(s)

\* a start, advance or end sent by connection s for code c
DrivingEvent(s, c) ==
  \/ \E payload \in QuizPayloads : HostStartGame(RegBounds, s, c, payload)
  \/ HostNext(RegBounds, s, c)
  \/ HostEnd(RegBounds, s, c)

\* C14: a start, advance or end sent by a host-capable connection that is not
\* the host of the targeted session leaves that session as it was, and the
\* hostId of a game never changes.
C14_OnlyOwnerDrives ==
  [][/\ \A s \in DOMAIN sockets, c \in Codes :
          (/\ sockets[s].isHost
           /\ HasGame(c)
           /\ heap[GidOf(c)].hostId # s
           /\ DrivingEvent(s, c))
          => (heap'[GidOf(c)] = heap[GidOf(c)] /\ games' = games /\ timers' = timers)
     /\ \A g \in DOMAIN heap : heap'[g].hostId = heap[g].hostId]_vars

\* a second host-capable connection is open beside a session that shows a
\* question for its own host, and the last event changed nothing
C14_Witness ==
  \E g \in Sessions, s \in DOMAIN sockets :
    /\ IsOpen(s) /\ sockets[s].isHost
    /\ IsOpen(heap[g].hostId)
    /\ heap[g].hostId # s
    /\ heap[g].state = "question"
    /\ emitted = << >>

\* C15: host:createGame leaves every session that was registered in the
\* registry under its own code, unchanged, and gives the new session a code
\* that none of them has.
C15_CreateKeepsSessions ==
  [][\A s \in DOMAIN sockets, c \in RegPins :
       (sockets[s].isHost /\ HostCreateGame(RegBounds, s, c))
       => /\ \A i \in DOMAIN games :
               /\ \E j \in DOMAIN games' : games'[j] = games[i]
               /\ heap'[games[i].gid] = heap[games[i].gid]
               /\ games[i].code # c]_vars

\* C16: after the disconnect of connection s the registry holds no game whose
\* hostId is s, and the room of every game s hosted was sent
\* game:hostDisconnected.
C16_HostDisconnectDestroysAll ==
  [][\A s \in DOMAIN sockets :
       Disconnect(s)
       => /\ \A j \in DOMAIN games' : heap'[games'[j].gid].hostId # s
          /\ \A i \in DOMAIN games :
               heap[games[i].gid].hostId = s
               => \E k \in DOMAIN emitted' :
                    emitted'[k] = Ev(games[i].code, "game:hostDisconnected")]_vars

\* the events whose payload carries a leaderboard
BoardEvents == {"question:reveal", "host:question:reveal", "game:over", "host:game:over"}

\* board lists the whole roster of g: scores descending, equal scores in
\* roster order, ranks 1..n
IsLeaderboardOf(board, g) ==
  /\ Len(board) = Len(g.players)
  /\ \A i \in DOMAIN board :
       /\ board[i].rank = i
       /\ HasPlayer(g, board[i].id)
       /\ board[i].score = PlayerOf(g, board[i].id).score
       /\ board[i].name = PlayerOf(g, board[i].id).name
  /\ \A i, j \in DOMAIN board :
       i < j => /\ board[i].id # board[j].id
                /\ board[i].score >= board[j].score
                /\ board[i].score = board[j].score
                   => PlayerPos(g, board[i].id) < PlayerPos(g, board[j].id)

\* C17: every leaderboard emitted at a reveal or at game end lists the roster
\* by score descending, ties in roster order, with ranks 1..n.
C17_LeaderboardRanking ==
  \A k \in DOMAIN emitted :
    emitted[k].ev \in BoardEvents
    => \E g \in DOMAIN heap :
         /\ heap[g].state \in {"reveal", "ended"}
         /\ emitted[k].to \in {heap[g].code, heap[g].hostId}
         /\ IsLeaderboardOf(emitted[k].leaderboard, heap[g])

\* a reveal has just ranked two tied players 1 and 2 in roster order, ahead of
\* a third with a lower score, and another roster order was re-sorted
C17_Witness ==
  /\ emitted # << >>
  /\ emitted[1].ev = "question:reveal"
  /\ Len(emitted[1].leaderboard) = 3
  /\ emitted[1].leaderboard[1].score = emitted[1].leaderboard[2].score
  /\ emitted[1].leaderboard[2].score > emitted[1].leaderboard[3].score
  /\ \E g \in Sessions :
       /\ IsLeaderboardOf(emitted[1].leaderboard, heap[g])
       /\ heap[g].players[1].id = emitted[1].leaderboard[3].id

\* C18: a session that shows a question eventually is in `reveal` or `ended`
\* or is removed from the registry.
C18_QuestionEventuallyCloses ==
  \A g \in 1..LiveGames :
    (g \in Sessions /\ heap[g].state = "question")
    ~> (g \notin Sessions \/ heap[g].state \in {"reveal", "ended"})

\* C19: a timeout that fires for a game which is no longer in the registry
\* changes no game and emits nothing.
C19_RemovedSessionTimerInert ==
  [][\A t \in BagToSet(timers) :
       (t.gid \notin Sessions /\ TimerFire(t)) => (heap' = heap /\ emitted' = << >>)]_vars

\* C20: while a session shows a question, answersSubmitted is the number of
\* players in its roster that have a recorded answer.
C20_AnswerCount ==
  \A g \in Sessions :
    heap[g].state = "question"
    => heap[g].answersSubmitted
         = Cardinality({i \in DOMAIN heap[g].players : heap[g].players[i].answered})

====
